---- MODULE Spec2Model ----
(***************************************************************************)
(* The job-dispatch engine of DocParse-Pro: the two in-process queues      *)
(* (backend/core/ocr_queue.py, backend/core/forms_queue.py), their worker  *)
(* tasks, the shared GPUResourceManager (backend/core/gpu_manager.py), the *)
(* job records of redis_job_manager.py and the executor threads that run   *)
(* the inference callables.                                                *)
(*                                                                         *)
(* Scheduling.  The workers, the submission handlers and stop_worker are   *)
(* asyncio tasks of one event loop: a task runs without interruption from  *)
(* one await that suspends to the next.  "running" names the task that     *)
(* holds the loop; only that task takes steps of the loop, so the steps    *)
(* between two suspensions are never interleaved with another task's.      *)
(* The inference callables run in executor threads, which do interleave    *)
(* with everything.                                                        *)
(***************************************************************************)
EXTENDS Integers, Sequences, FiniteSets, TLC

\* ------------------------------------------------------------------ bounds
MaxJobs == 3         \* jobs submitted in one behaviour
MaxWorkers == 2      \* largest max_workers a queue is constructed with
MaxConcurrent == 2   \* largest max_concurrent_users of the GPU manager
MaxRegions == 1      \* text regions PaddleOCR detects in one image
MaxStops == 1        \* calls of stop_worker in one behaviour
MaxPromptLen == 2    \* characters of an llm_prompt form field
MaxAttempts == 3     \* rounds of one wait_for_gpu call that is followed

\* --------------------------------------------------------------- constants
OcrService == "ocr_queue"
FormsService == "forms_queue"
Services == {OcrService, FormsService}
None == "None"
NoJob == 0
NoTask == <<>>
JobIds == 1..MaxJobs

\* GPU memory readings of log_gpu_memory (allocated, in GiB); NoCuda is its None.
NoCuda == -1
MemoryThreshold == 12

TimeoutMsg == "Could not acquire GPU access within timeout period"
StoreMsg == "redis connection error"
InferenceMsg == "inference failed"
ParserMsg == "Qwen vision service not available - GPU required"

\* settings.MAX_FILE_SIZE in MiB, ALLOWED_MIME_TYPES, ALLOWED_EXTENSIONS.
MaxFileSize == 10
AllowedMimeTypes ==
    {<<"image", t>> : t \in {"jpeg", "jpg", "png", "bmp", "tiff", "webp"}}
AllowedExtensions == {"jpg", "jpeg", "png", "bmp", "tiff", "webp"}

VARIABLES
    max_workers,      \* [service -> W]: InProcess*Queue.max_workers
    max_concurrent,   \* GPUResourceManager._max_concurrent
    qwen_parser,      \* FALSE when forms_queue imported no parser (qwen_parser is None)
    deployed,         \* the services app.py imports (settings.DEPLOYED_OCR)
    store_faults,     \* whether redis_client.set may raise in this behaviour
    inference_faults, \* whether an inference callable may raise in this behaviour
    cuda,             \* torch.cuda.is_available()
    detections,       \* the most text regions an uploaded image has
    queue,            \* [service -> Seq(job)]: the normal lane
    priority_queue,   \* [service -> Seq(job)]: the priority lane
    worker_tasks,     \* [service -> Seq(task)]: worker_id = index - 1
    active_jobs,      \* [service -> SUBSET job]
    lock,             \* [service -> holder of the queue's _lock]
    stop_at,          \* [service -> index of the task stop_worker awaits, 0 if none]
    start_waiters,    \* [service -> submissions whose start_worker waits for the lock]
    current_users,    \* GPUResourceManager._current_users
    redis,            \* [job -> record]: the job state store
    executor,         \* [job -> state of the thread running its inference callable]
    jobs,             \* [job -> descriptor]: what submit_job enqueued
    running,          \* the task that holds the event loop, NoTask between tasks
    stops,            \* stop_worker calls made so far
    tracing,          \* whether the behaviour's events are recorded
    events,           \* history: the enq/deq/infer/term events in order
    gpu_call,         \* the acquire_gpu / release_gpu call last served when the
                      \* GPU manager is driven on its own, NoCall otherwise
    gpu_wait,         \* the wait_for_gpu call followed when the GPU manager is
                      \* driven on its own, NoWait otherwise
    cleared,          \* [job -> clear_gpu_memory() calls its worker made for it]
    response          \* the HTTP response last sent when the endpoints are
                      \* followed, with the request it answers; NoResponse otherwise

config == <<max_workers, max_concurrent, qwen_parser, deployed, store_faults,
           inference_faults, cuda, detections, tracing>>
lanes == <<queue, priority_queue>>
pool == <<worker_tasks, active_jobs, lock, stop_at, start_waiters, stops>>
vars == <<config, lanes, pool, current_users, redis, executor, jobs, running, events,
          gpu_call, gpu_wait, cleared, response>>

\* ------------------------------------------------------------- job records
\* redis_job_manager.set_job_status: the record stored under job_id.
JobRecord(status, result, error, progress) ==
    [status |-> status, result |-> result, error |-> error, progress |-> progress]

\* get_job_status returns None for a key never set.
Missing == JobRecord("missing", None, None, 0)

\* set_job_status losing the record on a terminal write.
set_job_status_expiring(store, job_id, status, result, error, progress) ==
    [store EXCEPT ![job_id] =
        IF status \in {"completed", "error"} THEN Missing
        ELSE JobRecord(status, result, error, progress)]

set_job_status(store, job_id, status, result, error, progress) ==
    [store EXCEPT ![job_id] = JobRecord(status, result, error, progress)]

\* The outcomes of one redis_client.set call: TRUE when it succeeds.
StoreOutcomes == IF store_faults THEN BOOLEAN ELSE {TRUE}

Terminal(j) == redis[j].status \in {"completed", "error"}

\* The history of events, kept only in behaviours that trace.
Log(kind, j) == IF tracing THEN Append(events, <<kind, j>>) ELSE events

\* --------------------------------------------------------------- GPU manager
\* user_id of acquire_gpu / release_gpu.
\* worker_id is <<n>>, or <<>> for Python's None.
UserId(service_name, worker_id) ==
    IF worker_id # <<>> THEN <<service_name, "worker", worker_id[1]>> ELSE <<service_name>>

\* The worker_id argument each queue passes to the GPU manager: forms_queue
\* passes worker_id=worker_id, ocr_queue passes none.
GpuWorkerId(q, worker_id) == IF q = FormsService THEN <<worker_id>> ELSE <<>>

\* What log_gpu_memory can return to one acquire_gpu call.
MemReadings ==
    IF cuda THEN {MemoryThreshold - 1, MemoryThreshold, MemoryThreshold + 1} ELSE {NoCuda}

\* AtCapacity with the comparison off by one: a full set still admits.
AtCapacityStrict(users) == Cardinality(users) > max_concurrent

\* acquire_gpu: whether the call is admitted, given the memory reading.
AtCapacity(users) == Cardinality(users) >= max_concurrent

\* The memory test refusing at the threshold itself.
MemoryTooHighAtThreshold(mem) == mem # NoCuda /\ mem >= MemoryThreshold

\* The memory test refusing when log_gpu_memory returned None.
MemoryTooHighUnknown(mem) == mem = NoCuda \/ mem > MemoryThreshold

\* memory_info and memory_info["allocated"] > self._memory_threshold.
MemoryTooHigh(mem) == mem # NoCuda /\ mem > MemoryThreshold

AcquireGranted(users, mem) == ~AtCapacity(users) /\ ~MemoryTooHigh(mem)

acquire_gpu(users, user_id, mem) ==
    IF AcquireGranted(users, mem) THEN users \cup {user_id} ELSE users

\* release_gpu emptying the holder set.
release_gpu_all(users, user_id) == IF user_id \in users THEN {} ELSE users

\* release_gpu: remove user_id if it is in _current_users, else only warn.
release_gpu(users, user_id) == users \ {user_id}

\* The timeout both queues pass to wait_for_gpu.
QueueTimeout == 300

\* The timeouts wait_for_gpu is called with when exercised on its own.
Timeouts == {0, QueueTimeout}

\* The timeout test passing although no time went by.
MayElapseAlways(timeout, slept) == BOOLEAN

\* What "time() - start_time > timeout" can be: before any sleep(2) only the
\* time the attempt itself took has passed, which can exceed a timeout of 0
\* but not one of minutes; after a sleep(2) a timeout of 0 has been exceeded.
MayElapse(timeout, slept) ==
    IF slept THEN (IF timeout = 0 THEN {TRUE} ELSE BOOLEAN)
    ELSE (IF timeout = 0 THEN BOOLEAN ELSE {FALSE})

\* wait_for_gpu that only ever sleeps.
wait_round_sleep_only(users, mem, elapsed) == "sleep"

\* wait_for_gpu testing the timeout before it attempts.
wait_round_timeout_first(users, mem, elapsed) ==
    IF elapsed THEN "false" ELSE IF AcquireGranted(users, mem) THEN "true" ELSE "sleep"

\* One round of wait_for_gpu's loop: return True when acquire_gpu succeeds,
\* else return False when the timeout is exceeded, else sleep(2) and loop.
wait_round(users, mem, elapsed) ==
    IF AcquireGranted(users, mem) THEN "true" ELSE IF elapsed THEN "false" ELSE "sleep"

\* ------------------------------------------------------------ worker tasks
\* A worker task: where _worker_loop / _process_job stands, the job_data it
\* holds, _process_job's gpu_acquired, whether wait_for_gpu has slept since its
\* start_time, whether task.cancel() was called, the exception being handled
\* (err) and the one leaving _process_job (exc).
NewTask ==
    [pc |-> "idle", job |-> NoJob, gpu_acquired |-> FALSE, slept |-> FALSE,
     must_cancel |-> FALSE, err |-> None, exc |-> None]

\* pcs at which a task is suspended in an await: "idle" (just created, or in
\* asyncio.sleep(1) of the empty-queue branch), "sleep2" (wait_for_gpu's
\* sleep), "executor" (awaiting run_in_executor), "backoff" (sleep(5) after an
\* exception reached the loop).  At the other pcs ("dequeue", "acquire",
\* "set_processing", "except", "finally") the task holds the event loop.
Suspended == {"idle", "sleep2", "executor", "backoff"}

Task(q, i) == worker_tasks[q][i]
TaskIds(q) == 1..Len(worker_tasks[q])
Live(q) == {i \in TaskIds(q) : Task(q, i).pc # "done"}
SetTask(q, i, t) == [worker_tasks EXCEPT ![q][i] = t]

\* Task i of q takes its next step: it holds the loop at pc `at`, or the loop
\* is free and resumes it, not cancelled, from one of the awaits `from`.
Runs(q, i, at, from) ==
    /\ i \in TaskIds(q)
    /\ \/ running = <<q, i>> /\ Task(q, i).pc = at
       \/ running = NoTask /\ Task(q, i).pc \in from /\ ~Task(q, i).must_cancel

\* start_worker's body under the lock: append max_workers - active new tasks.
RECURSIVE AppendTasks(_, _)
AppendTasks(tasks, n) == IF n <= 0 THEN tasks ELSE AppendTasks(Append(tasks, NewTask), n - 1)

\* start_worker that appends max_workers new tasks whatever is live.
start_worker_all(q) ==
    [worker_tasks EXCEPT ![q] = AppendTasks(@, max_workers[q])]

start_worker(q) ==
    [worker_tasks EXCEPT ![q] = AppendTasks(@, max_workers[q] - Cardinality(Live(q)))]

\* ------------------------------------------------------------------- Init
\* An llm_prompt is a sequence of characters: a space, a newline or a letter.
Space == " "
Newline == "\n"
Chars == {Space, Newline, "a"}
Whitespace == {Space, Newline}

RECURSIVE SeqsUpTo(_, _)
SeqsUpTo(S, n) ==
    IF n = 0 THEN {<<>>}
    ELSE LET shorter == SeqsUpTo(S, n - 1) IN
         shorter \cup {Append(s, c) : s \in {t \in shorter : Len(t) = n - 1}, c \in S}

Prompts == SeqsUpTo(Chars, MaxPromptLen)

\* settings.DEFAULT_LLM_PROMPT as shipped, and the equal literal that the
\* priority endpoint carries in its own body.
DEFAULT_LLM_PROMPT == <<"FORM IMAGE TO JSON - Extract ALL information">>
PriorityPromptLiteral == <<"FORM IMAGE TO JSON - Extract ALL information">>

\* The descriptor of an OCR job has no prompt; a request followed without its
\* prompt field has none either.
NoPrompt == <<None>>

\* str.splitlines(): the lines between newlines, no last empty line.
RECURSIVE splitlines(_)
splitlines(s) ==
    IF s = <<>> THEN <<>>
    ELSE IF \E k \in 1..Len(s) : s[k] = Newline
      THEN LET k == CHOOSE n \in 1..Len(s) :
                        s[n] = Newline /\ \A m \in 1..(n - 1) : s[m] # Newline
           IN <<SubSeq(s, 1, k - 1)>> \o splitlines(SubSeq(s, k + 1, Len(s)))
      ELSE <<s>>

\* str.strip(): without its leading and trailing whitespace.
RECURSIVE strip(_)
strip(s) ==
    IF s = <<>> THEN s
    ELSE IF Head(s) \in Whitespace THEN strip(Tail(s))
    ELSE IF s[Len(s)] \in Whitespace THEN strip(SubSeq(s, 1, Len(s) - 1))
    ELSE s

\* " ".join(lines)
RECURSIVE join(_)
join(lines) ==
    IF lines = <<>> THEN <<>>
    ELSE IF Len(lines) = 1 THEN lines[1]
    ELSE lines[1] \o <<Space>> \o join(Tail(lines))

\* " ".join(line.strip() for line in llm_prompt.splitlines() if line.strip())
collapse(llm_prompt) ==
    join(SelectSeq([k \in 1..Len(splitlines(llm_prompt)) |->
                       strip(splitlines(llm_prompt)[k])],
                   LAMBDA line : line # <<>>))

\* The prompt the form-parse endpoints enqueue: "if not llm_prompt" picks the
\* default for the empty string only.
prompt_for(priority, llm_prompt) ==
    IF llm_prompt = <<>>
      THEN (IF priority THEN PriorityPromptLiteral ELSE DEFAULT_LLM_PROMPT)
      ELSE collapse(llm_prompt)

NoDescriptor == [service |-> None, priority |-> FALSE, size |-> 0, llm_prompt |-> NoPrompt]

\* An upload: content_type as <<type, subtype>>, filename as <<stem, suffix>>
\* (<<>> for None), the payload size in MiB.
NoFile == [content_type |-> <<>>, filename |-> <<>>, size |-> 0]

\* An upload that passes every check, at the largest size allowed.
GoodFile ==
    [content_type |-> <<"image", "png">>, filename |-> <<"scan", "png">>,
     size |-> MaxFileSize]

\* A response body without a progress field.
NoProgress == -1

\* No HTTP response followed.
NoBody == [success |-> FALSE, status |-> None, message |-> None, result |-> None,
           progress |-> NoProgress]
NoResponse ==
    [op |-> None, service |-> None, code |-> 0, job |-> NoJob, file |-> NoFile,
     seen |-> Missing, body |-> NoBody, llm_prompt |-> NoPrompt]

\* No call of the GPU manager recorded.
NoCall == [op |-> None, user_id |-> <<>>, mem |-> NoCuda, before |-> {}, ret |-> FALSE]

\* No wait_for_gpu call followed.
NoWait == [user_id |-> <<>>, timeout |-> 0, attempts |-> 0, slept |-> FALSE, ret |-> None]

InitState ==
    /\ queue = [q \in Services |-> <<>>]
    /\ priority_queue = [q \in Services |-> <<>>]
    /\ worker_tasks = [q \in Services |-> <<>>]
    /\ active_jobs = [q \in Services |-> {}]
    /\ lock = [q \in Services |-> "free"]
    /\ stop_at = [q \in Services |-> 0]
    /\ start_waiters = [q \in Services |-> 0]
    /\ current_users = {}
    /\ redis = [j \in JobIds |-> Missing]
    /\ executor = [j \in JobIds |-> [st |-> "none", idx |-> 0, n |-> 0, user_id |-> <<>>]]
    /\ jobs = [j \in JobIds |-> NoDescriptor]
    /\ running = NoTask
    /\ stops = 0
    /\ events = <<>>
    /\ gpu_call = NoCall
    /\ gpu_wait = NoWait
    /\ cleared = [j \in JobIds |-> 0]
    /\ response = NoResponse

\* The worker counts a deployment of `services` can have: max_workers of a
\* queue that is not imported plays no part and is left at 1.
WorkerCounts(services) ==
    {w \in [Services -> 1..MaxWorkers] : \A q \in Services \ services : w[q] = 1}

\* ------------------------------------------------------------- submission
Submitted == {j \in JobIds : jobs[j].service # None}
NextJobId == Cardinality(Submitted) + 1

\* put at the head of the lane instead of its tail.
put_first(lane, j) == <<j>> \o lane

\* asyncio.Queue.put on an unbounded queue: the item joins the tail.
put(lane, j) == Append(lane, j)

\* get_nowait handing out the head of the lane without removing it.
get_nowait_peek(lane) == <<Head(lane), lane>>

\* get_nowait taking the item at the tail of the lane.
get_nowait_last(lane) == <<lane[Len(lane)], SubSeq(lane, 1, Len(lane) - 1)>>

\* asyncio.Queue.get_nowait on a lane that is not empty: the item at the head,
\* and the lane it leaves.
get_nowait(lane) == <<Head(lane), Tail(lane)>>

\* The submission endpoints (text_extraction.py, form_parsing.py) followed by
\* submit_job: write the pending record, put the descriptor in its lane, then
\* start_worker, which waits when stop_worker holds the queue's lock.  When the
\* pending write raises the endpoint answers 400 and nothing is enqueued.
Enqueue(q, priority, file, llm_prompt) ==
    /\ running = NoTask
    /\ q \in deployed
    /\ NextJobId <= MaxJobs
    /\ LET j == NextJobId IN
        /\ redis' = set_job_status(redis, j, "pending", None, None, 0)
        /\ jobs' = [jobs EXCEPT ![j] =
                       [service |-> q, priority |-> priority, size |-> file.size,
                        llm_prompt |-> llm_prompt]]
        /\ IF priority
             THEN /\ priority_queue' = [priority_queue EXCEPT ![q] = put(@, j)]
                  /\ UNCHANGED queue
             ELSE /\ queue' = [queue EXCEPT ![q] = put(@, j)]
                  /\ UNCHANGED priority_queue
        /\ events' = Log("enq", j)
    /\ IF lock[q] = "free" /\ start_waiters[q] = 0
         THEN /\ worker_tasks' = start_worker(q)
              /\ UNCHANGED start_waiters
         ELSE /\ start_waiters' = [start_waiters EXCEPT ![q] = @ + 1]
              /\ UNCHANGED worker_tasks
    /\ UNCHANGED <<config, gpu_call, gpu_wait, cleared, active_jobs, lock, stop_at, stops, current_users,
                   executor, running>>

\* A submission whose prompt field was left out: Form("") for form-parse, no
\* prompt at all in an OCR descriptor.
Accept(q, priority, file) ==
    Enqueue(q, priority, file,
            IF q = FormsService THEN prompt_for(priority, <<>>) ELSE NoPrompt)

\* A submission of an upload that passes every check, its response not followed.
Submit(q, priority) == Accept(q, priority, GoodFile) /\ UNCHANGED response

\* start_worker called on its own (the lifespan's startup).
StartWorker(q) ==
    /\ running = NoTask
    /\ q \in deployed
    /\ lock[q] = "free"
    /\ start_waiters[q] = 0
    /\ Cardinality(Live(q)) < max_workers[q]
    /\ worker_tasks' = start_worker(q)
    /\ UNCHANGED <<config, gpu_call, gpu_wait, response, cleared, lanes, active_jobs, lock, stop_at, start_waiters, stops,
                   current_users, redis, executor, jobs, running, events>>

\* A submission's start_worker that waited for the lock gets it.
StartWorkerResume(q) ==
    /\ running = NoTask
    /\ lock[q] = "free"
    /\ start_waiters[q] > 0
    /\ worker_tasks' = start_worker(q)
    /\ start_waiters' = [start_waiters EXCEPT ![q] = @ - 1]
    /\ UNCHANGED <<config, gpu_call, gpu_wait, response, cleared, lanes, active_jobs, lock, stop_at, stops,
                   current_users, redis, executor, jobs, running, events>>

\* ------------------------------------------------------------ worker loop
\* DequeueLane without the fall-through to the normal lane.
DequeueLanePriorityOnly(q) == IF priority_queue[q] # <<>> THEN "priority" ELSE "empty"

\* DequeueLane looking at the normal lane first.
DequeueLaneNormalFirst(q) ==
    IF queue[q] # <<>> THEN "normal"
    ELSE IF priority_queue[q] # <<>> THEN "priority"
    ELSE "empty"

\* _worker_loop's dequeue decision: priority_queue.get_nowait(), else
\* queue.get_nowait(), else sleep(1).  With a descriptor, _process_job starts:
\* gpu_acquired = False, active_jobs.add(job_id), and wait_for_gpu begins.
DequeueLane(q) ==
    IF priority_queue[q] # <<>> THEN "priority"
    ELSE IF queue[q] # <<>> THEN "normal"
    ELSE "empty"

Dequeue(q, i) ==
    /\ Runs(q, i, "dequeue", {"idle", "backoff"})
    /\ LET lane == DequeueLane(q)
           j == IF lane = "priority" THEN get_nowait(priority_queue[q])[1]
                ELSE IF lane = "normal" THEN get_nowait(queue[q])[1] ELSE NoJob
       IN
        /\ priority_queue' = IF lane = "priority"
                               THEN [priority_queue EXCEPT ![q] = get_nowait(@)[2]]
                               ELSE priority_queue
        /\ queue' = IF lane = "normal"
                      THEN [queue EXCEPT ![q] = get_nowait(@)[2]]
                      ELSE queue
        /\ IF lane = "empty"
             THEN /\ worker_tasks' = SetTask(q, i, [Task(q, i) EXCEPT !.pc = "idle"])
                  /\ running' = NoTask
                  /\ UNCHANGED <<active_jobs, events>>
             ELSE /\ worker_tasks' = SetTask(q, i,
                       [Task(q, i) EXCEPT !.pc = "acquire", !.job = j,
                                          !.gpu_acquired = FALSE, !.slept = FALSE])
                  /\ running' = <<q, i>>
                  /\ active_jobs' = [active_jobs EXCEPT ![q] = @ \cup {j}]
                  /\ events' = Log("deq", j)
    /\ UNCHANGED <<config, gpu_call, gpu_wait, response, cleared, lock, stop_at, start_waiters, stops, current_users,
                   redis, executor, jobs>>

\* One round of wait_for_gpu's loop: acquire_gpu, and when it is refused the
\* timeout test and sleep(2).  elapsed is "time() - start_time > timeout": never
\* on the first attempt (no time has passed), at any later one.
WaitForGpu(q, i) ==
    /\ Runs(q, i, "acquire", {"sleep2"})
    /\ \E mem \in MemReadings, elapsed \in MayElapse(QueueTimeout, Task(q, i).slept) :
        LET t == Task(q, i)
            user_id == UserId(q, GpuWorkerId(q, i - 1))
        IN
        /\ current_users' = acquire_gpu(current_users, user_id, mem)
        /\ IF wait_round(current_users, mem, elapsed) = "true"
             THEN /\ worker_tasks' = SetTask(q, i,
                       [t EXCEPT !.pc = "set_processing", !.gpu_acquired = TRUE])
                  /\ running' = <<q, i>>
             ELSE IF wait_round(current_users, mem, elapsed) = "false"
             THEN /\ worker_tasks' = SetTask(q, i,
                       [t EXCEPT !.pc = "except", !.err = TimeoutMsg])
                  /\ running' = <<q, i>>
             ELSE /\ worker_tasks' = SetTask(q, i,
                       [t EXCEPT !.pc = "sleep2", !.slept = TRUE])
                  /\ running' = NoTask
    /\ UNCHANGED <<config, gpu_call, gpu_wait, response, cleared, lanes, active_jobs, lock, stop_at, start_waiters, stops,
                   redis, executor, jobs, events>>

\* The detections full_ocr_logic loops over; parse_form_complete has no loop.
RegionCounts(q) == IF q = OcrService THEN 0..detections ELSE {0}

\* The worker's clear_gpu_memory() for its job: only forms_queue calls it.
clear_gpu_memory(q, job_id) ==
    IF q = FormsService THEN [cleared EXCEPT ![job_id] = @ + 1] ELSE cleared

\* The processing write left out.
processing_write_skipped(store, job_id) == store

\* set_job_status(job_id, "processing", progress=1).
processing_write(store, job_id) ==
    set_job_status(store, job_id, "processing", None, None, 1)

\* After admission: (forms: clear_gpu_memory(),) set_job_status(processing,
\* progress=1), (forms: the qwen_parser check,) run_in_executor and its await.
SetProcessing(q, i) ==
    /\ running = <<q, i>>
    /\ Task(q, i).pc = "set_processing"
    /\ \E ok \in StoreOutcomes, n \in RegionCounts(q) :
       LET t == Task(q, i) IN
       IF ~ok
         THEN /\ worker_tasks' = SetTask(q, i, [t EXCEPT !.pc = "except", !.err = StoreMsg])
              /\ UNCHANGED <<redis, executor, running, events>>
       ELSE IF q = FormsService /\ ~qwen_parser
         THEN /\ redis' = processing_write(redis, t.job)
              /\ worker_tasks' = SetTask(q, i, [t EXCEPT !.pc = "except", !.err = ParserMsg])
              /\ UNCHANGED <<executor, running, events>>
       ELSE   /\ redis' = processing_write(redis, t.job)
              /\ executor' = [executor EXCEPT ![t.job] =
                                  [st |-> "running", idx |-> 0, n |-> n,
                                   user_id |-> UserId(q, GpuWorkerId(q, i - 1))]]
              /\ worker_tasks' = SetTask(q, i, [t EXCEPT !.pc = "executor"])
              /\ running' = NoTask
              /\ events' = Log("infer", t.job)
    /\ cleared' = clear_gpu_memory(q, Task(q, i).job)
    /\ UNCHANGED <<config, gpu_call, gpu_wait, response, lanes, active_jobs, lock, stop_at, start_waiters, stops,
                   current_users, jobs>>

\* The awaited callable returned: set_job_status(completed,
\* result=result.model_dump(), progress=100).
SetCompleted(q, i) ==
    /\ Runs(q, i, "set_completed", {"executor"})
    /\ executor[Task(q, i).job].st = "returned"
    /\ \E ok \in StoreOutcomes :
       LET t == Task(q, i) IN
       IF ok
         THEN /\ redis' = set_job_status(redis, t.job, "completed", "payload", None, 100)
              /\ worker_tasks' = SetTask(q, i, [t EXCEPT !.pc = "finally"])
              /\ events' = Log("term", t.job)
         ELSE /\ worker_tasks' = SetTask(q, i, [t EXCEPT !.pc = "except", !.err = StoreMsg])
              /\ UNCHANGED <<redis, events>>
    /\ running' = <<q, i>>
    /\ UNCHANGED <<config, gpu_call, gpu_wait, response, cleared, lanes, active_jobs, lock, stop_at, start_waiters, stops,
                   current_users, executor, jobs>>

\* Caught for an exception whose str(e) is lost.
CaughtNothing(q, i) == None

\* The exception e that _process_job's "except Exception as e" handles: the one
\* raised on the loop (err), or the one the awaited callable raised.
Caught(q, i) ==
    IF Task(q, i).pc = "executor" THEN InferenceMsg ELSE Task(q, i).err

\* except Exception as e: set_job_status(job_id, "error", error=str(e)); when
\* this write raises too, the exception leaves _process_job through finally.
Except(q, i) ==
    /\ Runs(q, i, "except", {"executor"})
    /\ Task(q, i).pc = "executor" => executor[Task(q, i).job].st = "raised"
    /\ \E ok \in StoreOutcomes :
       LET t == Task(q, i) IN
       IF ok
         THEN /\ redis' = set_job_status(redis, t.job, "error", None, Caught(q, i), 0)
              /\ worker_tasks' = SetTask(q, i, [t EXCEPT !.pc = "finally", !.err = None])
              /\ events' = Log("term", t.job)
         ELSE /\ worker_tasks' = SetTask(q, i,
                   [t EXCEPT !.pc = "finally", !.err = None, !.exc = "Exception"])
              /\ UNCHANGED <<redis, events>>
    /\ running' = <<q, i>>
    /\ UNCHANGED <<config, gpu_call, gpu_wait, response, cleared, lanes, active_jobs, lock, stop_at, start_waiters, stops,
                   current_users, executor, jobs>>

\* The finally block's release without its "if gpu_acquired".
finally_release_always(users, user_id, gpu_acquired) == release_gpu(users, user_id)

\* A loop that breaks on every exception.
loop_handler_break(exc) == "done"

\* _worker_loop's handlers for an exception leaving _process_job: break on
\* CancelledError, sleep(5) and go on for any other Exception.
loop_handler(exc) == IF exc = "CancelledError" THEN "done" ELSE "backoff"

\* The finally block without any release.
finally_release_never(users, user_id, gpu_acquired) == users

\* The finally block's "if gpu_acquired: await gpu_manager.release_gpu(...)".
finally_release(users, user_id, gpu_acquired) ==
    IF gpu_acquired THEN release_gpu(users, user_id) ELSE users

\* finally: active_jobs.discard(job_id); (forms: clear_gpu_memory();) release_gpu
\* if gpu_acquired.  Then the loop goes on without suspending, or the exception
\* reaches _worker_loop: sleep(5) for an Exception, break for CancelledError.
Finally(q, i) ==
    /\ running = <<q, i>>
    /\ Task(q, i).pc = "finally"
    /\ LET t == Task(q, i)
           user_id == UserId(q, GpuWorkerId(q, i - 1))
           after == [t EXCEPT !.job = NoJob, !.gpu_acquired = FALSE, !.slept = FALSE,
                              !.exc = None]
       IN
        /\ active_jobs' = [active_jobs EXCEPT ![q] = @ \ {t.job}]
        /\ current_users' = finally_release(current_users, user_id, t.gpu_acquired)
        /\ IF t.exc = None
             THEN /\ worker_tasks' = SetTask(q, i, [after EXCEPT !.pc = "dequeue"])
                  /\ UNCHANGED running
             ELSE /\ worker_tasks' = SetTask(q, i,
                       [after EXCEPT !.pc = loop_handler(t.exc)])
                  /\ running' = NoTask
    /\ cleared' = clear_gpu_memory(q, Task(q, i).job)
    /\ UNCHANGED <<config, gpu_call, gpu_wait, response, lanes, lock, stop_at, start_waiters, stops,
                   redis, executor, jobs, events>>

\* A cancelled task is resumed with CancelledError at its await: in the loop's
\* own sleeps the task ends; inside _process_job the finally block runs first.
Cancelled(q, i) ==
    /\ running = NoTask
    /\ i \in TaskIds(q)
    /\ LET t == Task(q, i) IN
        /\ t.pc \in Suspended
        /\ t.must_cancel
        /\ IF t.pc \in {"idle", "backoff"}
             THEN /\ worker_tasks' = SetTask(q, i, [t EXCEPT !.pc = "done"])
                  /\ UNCHANGED running
             ELSE /\ worker_tasks' = SetTask(q, i,
                       [t EXCEPT !.pc = "finally", !.exc = "CancelledError"])
                  /\ running' = <<q, i>>
    /\ UNCHANGED <<config, gpu_call, gpu_wait, response, cleared, lanes, active_jobs, lock, stop_at, start_waiters, stops,
                   current_users, redis, executor, jobs, events>>

\* ------------------------------------------------------------ stop_worker
\* The first task after index k that is not done, 0 when there is none.
NextLive(q, k) ==
    IF \E i \in Live(q) : i > k
      THEN CHOOSE i \in Live(q) : i > k /\ \A i2 \in Live(q) : i2 > k => i <= i2
      ELSE 0

\* stop_worker's loop from index k on: cancel the next task that is not done
\* and await it; with none left, worker_tasks.clear() and the lock is released.
StopFrom(q, k) ==
    LET i == NextLive(q, k) IN
    IF i # 0
      THEN /\ worker_tasks' = SetTask(q, i, [Task(q, i) EXCEPT !.must_cancel = TRUE])
           /\ stop_at' = [stop_at EXCEPT ![q] = i]
           /\ lock' = [lock EXCEPT ![q] = "stop_worker"]
      ELSE /\ worker_tasks' = [worker_tasks EXCEPT ![q] = <<>>]
           /\ stop_at' = [stop_at EXCEPT ![q] = 0]
           /\ lock' = [lock EXCEPT ![q] = "free"]

StopWorker(q) ==
    /\ running = NoTask
    /\ q \in deployed
    /\ lock[q] = "free"
    /\ stops < MaxStops
    /\ stops' = stops + 1
    /\ StopFrom(q, 0)
    /\ UNCHANGED <<config, gpu_call, gpu_wait, response, cleared, lanes, active_jobs, start_waiters, current_users,
                   redis, executor, jobs, running, events>>

\* "await task" returns once the cancelled task is done.
StopAwaited(q) ==
    /\ running = NoTask
    /\ lock[q] = "stop_worker"
    /\ Task(q, stop_at[q]).pc = "done"
    /\ StopFrom(q, stop_at[q])
    /\ UNCHANGED <<config, gpu_call, gpu_wait, response, cleared, lanes, active_jobs, start_waiters, stops, current_users,
                   redis, executor, jobs, running, events>>

\* ---------------------------------------------------------- executor threads
\* validate_image_bytes: neither empty nor larger than MAX_FILE_SIZE.
validate_image_bytes(size) == size # 0 /\ ~(size > MaxFileSize)

\* full_ocr_logic starts with validate_image_bytes(image_bytes) and raises when
\* it fails; parse_form_complete has no such check.
CallableAccepts(j) ==
    jobs[j].service = OcrService => validate_image_bytes(jobs[j].size)

\* full_ocr_logic's region loop: set_job_status(job_id, "processing",
\* progress=int(idx / len(detections_raw) * 100)) inside a try that swallows
\* every exception of the iteration.
RegionProgress(idx, n) == (idx * 100) \div n

OcrRegion(j) ==
    /\ executor[j].st = "running"
    /\ CallableAccepts(j)
    /\ executor[j].idx < executor[j].n
    /\ \E ok \in StoreOutcomes :
        redis' = IF ok
                   THEN set_job_status(redis, j, "processing", None, None,
                                       RegionProgress(executor[j].idx, executor[j].n))
                   ELSE redis
    /\ executor' = [executor EXCEPT ![j].idx = @ + 1]
    /\ UNCHANGED <<config, gpu_call, gpu_wait, response, cleared, lanes, pool, current_users, jobs, running, events>>

\* The callable returns its result.
ThreadReturn(j) ==
    /\ executor[j].st = "running"
    /\ CallableAccepts(j)
    /\ executor[j].idx = executor[j].n
    /\ executor' = [executor EXCEPT ![j].st = "returned", ![j].user_id = <<>>]
    /\ UNCHANGED <<config, gpu_call, gpu_wait, response, cleared, lanes, pool, current_users, redis, jobs, running, events>>

\* The callable raises (validate_image_bytes, detection, the model call): in
\* full_ocr_logic only outside the region loop's try.
ThreadRaise(j) ==
    /\ inference_faults
    /\ executor[j].st = "running"
    /\ executor[j].idx = 0
    /\ executor' = [executor EXCEPT ![j].st = "raised", ![j].user_id = <<>>]
    /\ UNCHANGED <<config, gpu_call, gpu_wait, response, cleared, lanes, pool, current_users, redis, jobs, running, events>>

\* ------------------------------------------------------------------- Next
WorkerStep(q, i) ==
    \/ Dequeue(q, i)
    \/ WaitForGpu(q, i)
    \/ SetProcessing(q, i)
    \/ SetCompleted(q, i)
    \/ Except(q, i)
    \/ Finally(q, i)

ThreadEnd(j) ==
    \/ ThreadReturn(j)
    \/ ThreadRaise(j)

\* Submissions, workers and threads; no shutdown.
NextRun ==
    \/ \E q \in Services, priority \in BOOLEAN : Submit(q, priority)
    \/ \E q \in Services : StartWorker(q)
    \/ \E q \in Services, i \in 1..MaxWorkers : WorkerStep(q, i)
    \/ \E j \in JobIds : ThreadEnd(j)

\* Shutdown: stop_worker, the cancellations it delivers, and the start_worker
\* calls that waited for it.
NextStop ==
    \/ \E q \in Services : StopWorker(q)
    \/ \E q \in Services : StopAwaited(q)
    \/ \E q \in Services, i \in 1..MaxWorkers : Cancelled(q, i)
    \/ \E q \in Services : StartWorkerResume(q)

Next ==
    \/ NextRun
    \/ NextStop
    \/ \E j \in JobIds : OcrRegion(j)

\* The settings a behaviour starts from.
Settings(services, workers, capacities, parsers, faults, raises, cudas, regions, trace) ==
    /\ deployed \in services
    /\ max_workers \in workers
    /\ max_concurrent \in capacities
    /\ qwen_parser \in parsers
    /\ store_faults = faults
    /\ inference_faults \in raises
    /\ cuda \in cudas
    /\ detections = regions
    /\ tracing = trace
    /\ InitState

\* The settings of a behaviour in which any inference callable may raise.
Configured(services, workers, capacities, parsers, faults, cudas, regions, trace) ==
    Settings(services, workers, capacities, parsers, faults, {TRUE}, cudas, regions,
             trace)

\* The shipped settings: TROCR_MAX_WORKERS = QWEN_MAX_WORKERS = 1,
\* max_concurrent_users = 1, either engine deployed, with or without CUDA.
DefaultWorkers == [q \in Services |-> 1]

Shipped(faults) ==
    /\ Configured({{OcrService}, {FormsService}}, {DefaultWorkers}, {1}, BOOLEAN, faults,
                  BOOLEAN, MaxRegions, FALSE)
    /\ OcrService \in deployed => qwen_parser

\* Submissions, workers, threads and the OCR region loop; no shutdown.
NextServe ==
    \/ NextRun
    \/ \E j \in JobIds : OcrRegion(j)

\* The shipped settings with the store available.
Init == Shipped(FALSE)

Spec == Init /\ [][NextServe]_vars

\* The shipped settings with store writes that may fail.
InitFaults == Shipped(TRUE)

SpecFaults == InitFaults /\ [][NextServe]_vars

\* Either engine with its one worker over one GPU slot, with CUDA; store writes
\* may fail.
InitStore ==
    Configured({{OcrService}, {FormsService}}, {DefaultWorkers}, {1}, {TRUE}, TRUE,
               {TRUE}, 0, FALSE)

SpecStore == InitStore /\ [][NextRun]_vars

\* The OCR engine with its one worker, shut down and restarted.
InitStop ==
    Configured({{OcrService}}, {DefaultWorkers}, {1}, {TRUE}, FALSE,
               {FALSE}, MaxRegions, FALSE)

SpecStop == InitStop /\ [][Next]_vars

\* Both engines deployed over one GPU manager of any capacity: any number of
\* OCR workers beside the one forms worker; normal submissions only.
InitGpu ==
    Configured({Services}, WorkerCounts({OcrService}), 1..MaxConcurrent, {TRUE}, FALSE,
               {FALSE}, 0, FALSE)

NextGpu ==
    \/ \E q \in Services : Submit(q, FALSE)
    \/ \E q \in Services : StartWorker(q)
    \/ \E q \in Services, i \in 1..MaxWorkers : WorkerStep(q, i)
    \/ \E j \in JobIds : ThreadEnd(j)

SpecGpu == InitGpu /\ [][NextGpu]_vars

\* One engine deployed with any worker count over one GPU slot.
InitPool ==
    /\ Configured({{OcrService}, {FormsService}}, WorkerCounts(Services), {1}, {TRUE},
                  FALSE, {FALSE}, 0, FALSE)
    /\ max_workers \in WorkerCounts(deployed)

SpecPool == InitPool /\ [][NextRun]_vars

\* The OCR engine over one GPU slot with the history of events recorded: one
\* worker whose inference may raise, or two workers whose inference returns.
InitTrace ==
    /\ Settings({{OcrService}}, WorkerCounts({OcrService}), {1}, {TRUE}, FALSE,
                BOOLEAN, {FALSE}, 0, TRUE)
    /\ max_workers[OcrService] <= 2
    /\ inference_faults = (max_workers[OcrService] = 1)

SpecTrace == InitTrace /\ [][NextRun]_vars

\* The OCR engine with W = 2 workers over one GPU slot, the store available,
\* no shutdown.  The event loop runs every task that can take a step and every
\* inference thread comes to an end.
InitLive ==
    /\ Configured({{OcrService}}, WorkerCounts({OcrService}), {1}, {TRUE}, FALSE,
                  {FALSE}, 0, FALSE)
    /\ max_workers[OcrService] = 2

Fairness ==
    /\ \A i \in 1..MaxWorkers : WF_vars(WorkerStep(OcrService, i))
    /\ \A j \in JobIds : WF_vars(ThreadEnd(j))

SpecLive == InitLive /\ [][NextRun]_vars /\ Fairness

\* The OCR engine of SpecStore under the scheduling of SpecLive; normal
\* submissions only.
InitStoreLive == InitStore /\ deployed = {OcrService}

SpecStoreLive == InitStoreLive /\ [][NextGpu]_vars /\ Fairness

\* ===================================================================== claims
\* The workers whose inference callable is running on an executor thread.
Inferring ==
    {w \in Services \X (1..MaxWorkers) :
        /\ w[2] \in TaskIds(w[1])
        /\ Task(w[1], w[2]).pc = "executor"
        /\ executor[Task(w[1], w[2]).job].st = "running"}

Waiting(q, i) == i \in TaskIds(q) /\ Task(q, i).pc = "sleep2"

\* C1: the number of holder identifiers in _current_users never exceeds
\* _max_concurrent.
C1_HoldersWithinCapacity == Cardinality(current_users) <= max_concurrent

\* The set is full and a worker that was refused sleeps in wait_for_gpu.
C1_Witness ==
    /\ Cardinality(current_users) = max_concurrent
    /\ \E q \in Services, i \in 1..MaxWorkers : Waiting(q, i)

\* C2: for every worker count and every capacity, the number of workers
\* executing inference at any instant is at most MAX_CONCURRENT.
C2_InferringWithinCapacity == Cardinality(Inferring) <= max_concurrent

\* A change of a record's status along a permitted edge; the first write of a
\* job creates its pending record.
PermittedEdge(old, new) ==
    \/ old.status = "missing" /\ new.status = "pending"
    \/ old.status = "pending" /\ new.status = "processing"
    \/ old.status = "processing" /\ new.status \in {"completed", "error"}
    \/ old.status = "pending" /\ new.status = "error" /\ new.error = TimeoutMsg

\* C3: a job's status changes only along pending -> processing, processing ->
\* completed, processing -> error, and pending -> error when GPU admission timed
\* out; a completed or error record never changes and none returns to pending.
C3_StatusEdges ==
    [][\A j \in JobIds :
          /\ redis[j].status # redis'[j].status => PermittedEdge(redis[j], redis'[j])
          /\ Terminal(j) => redis'[j] = redis[j]]_vars

\* C4: in every stored record, result is non-null iff status = completed and
\* error is non-null iff status = error.
C4_ResultAndError ==
    \A j \in JobIds :
        /\ redis[j].result # None <=> redis[j].status = "completed"
        /\ redis[j].error # None <=> redis[j].status = "error"

\* One job completed with its result and another failed with its error text.
C4_Witness ==
    \E j, k \in JobIds :
        /\ redis[j].status = "completed" /\ redis[j].result # None
        /\ redis[k].status = "error" /\ redis[k].error # None

\* A step of a worker or of an inference thread that changes the state.
WorkStep ==
    \/ \E q \in Services, i \in 1..MaxWorkers : WorkerStep(q, i)
    \/ \E j \in JobIds : ThreadEnd(j)

Unfinished == {j \in Submitted : ~Terminal(j)}

\* C5: with W = 2, MAX_CONCURRENT = 1, terminating inference, an available
\* store and no stop_worker, every submitted job eventually has a completed or
\* error record, and while jobs are unfinished some worker step is possible.
C5_AllJobsFinish ==
    /\ \A j \in JobIds : (j \in Submitted) ~> Terminal(j)
    /\ [](Unfinished # {} => ENABLED <<WorkStep>>_vars)

\* Every job was submitted and is terminal, both workers were started, and a
\* job failed on the GPU timeout while the other worker held the slot.
C5_Witness ==
    /\ Submitted = JobIds
    /\ Unfinished = {}
    /\ \E q \in Services : Len(worker_tasks[q]) = 2
    /\ \E j \in JobIds : redis[j].error = TimeoutMsg

\* The lane a submitted job was put in, and whether it still waits there.
LaneOf(j) == IF jobs[j].priority THEN priority_queue[jobs[j].service]
                                 ELSE queue[jobs[j].service]

InLane(j) == \E k \in 1..Len(LaneOf(j)) : LaneOf(j)[k] = j

SameLane(a, b) ==
    /\ a \in Submitted /\ b \in Submitted
    /\ jobs[a].service = jobs[b].service
    /\ jobs[a].priority = jobs[b].priority

\* The worker of queue q that holds job j.
Holds(q, i, j) == i \in TaskIds(q) /\ Task(q, i).job = j

\* C6: a descriptor leaves the normal lane of a queue only when the priority
\* lane of that queue is empty.
C6_PriorityLaneFirst ==
    [][\A q \in Services :
          Len(queue'[q]) < Len(queue[q]) => priority_queue[q] = <<>>]_vars

\* A worker has just taken a priority job although an older normal job of the
\* same queue is still waiting.
C6_Witness ==
    \E q \in Services, i \in 1..MaxWorkers, j, k \in JobIds :
        /\ Holds(q, i, j) /\ Task(q, i).pc = "acquire"
        /\ jobs[j].priority
        /\ k < j /\ jobs[k].service = q /\ ~jobs[k].priority /\ InLane(k)

\* C7: within a lane, jobs are dequeued in the order submit_job enqueued them
\* (job ids follow the submission order): no job waits in its lane while a job
\* enqueued later in the same lane has left it.
C7_FifoWithinLane ==
    \A a, b \in JobIds :
        (SameLane(a, b) /\ a < b /\ InLane(a)) => InLane(b)

\* A worker has just taken the older of two jobs of one lane; the younger one
\* still waits.
C7_Witness ==
    \E q \in Services, i \in 1..MaxWorkers, a, b \in JobIds :
        /\ SameLane(a, b) /\ a < b
        /\ Holds(q, i, a) /\ Task(q, i).pc = "acquire"
        /\ InLane(b)

\* Priority jobs a, b of one queue, a submitted before b.
PriorityPair(a, b) == SameLane(a, b) /\ jobs[a].priority /\ a < b

\* C8 as stated: for any worker count, priority jobs of one queue get their
\* terminal records in submission order: the later one is never terminal
\* before the earlier one.
C8_PriorityTerminalOrder ==
    \A a, b \in JobIds : (PriorityPair(a, b) /\ Terminal(b)) => Terminal(a)

\* C8 for one worker: with W = 1, a priority job never gets its terminal record
\* after a priority job of the same queue that was submitted later.
C8_PriorityTerminalOrderOneWorker ==
    [][\A a, b \in JobIds :
          (/\ PriorityPair(a, b)
           /\ max_workers[jobs[a].service] = 1
           /\ Terminal(b) /\ ~Terminal(a)) => ~Terminal(a)']_vars

\* One worker has brought two priority jobs of its queue to their terminal
\* records.
C8_Witness ==
    \E a, b \in JobIds :
        /\ PriorityPair(a, b)
        /\ max_workers[jobs[a].service] = 1
        /\ Terminal(a) /\ Terminal(b)

\* The position of an event in the history, 0 when it has not happened.
Pos(kind, j) ==
    IF \E k \in 1..Len(events) : events[k] = <<kind, j>>
      THEN CHOOSE k \in 1..Len(events) : events[k] = <<kind, j>>
      ELSE 0

Happened(kind, j) == Pos(kind, j) # 0

\* Job b has no terminal write before job a's.
TerminalBefore(a, b) ==
    Happened("term", b) => (Happened("term", a) /\ Pos("term", a) < Pos("term", b))

\* Submissions N1 (normal), P1 (priority), N2 (normal), in that order, to one
\* worker.
ThreeJobs ==
    /\ max_workers[OcrService] = 1 /\ max_concurrent = 1
    /\ {1, 2, 3} \subseteq Submitted
    /\ ~jobs[1].priority /\ jobs[2].priority /\ ~jobs[3].priority

AllEnqueuedFirst ==
    \A j \in 1..3, k \in 1..3 : Happened("deq", k) => Pos("enq", j) < Pos("deq", k)

FirstDequeuedEarly == Happened("deq", 1) /\ Pos("deq", 1) < Pos("enq", 2)

\* C9: with W = 1, MAX_CONCURRENT = 1 and submissions N1, P1, N2: when all
\* three are enqueued before the first dequeue the terminal writes come in the
\* order P1, N1, N2; when N1 was dequeued before P1 was enqueued, in the order
\* N1, P1, N2.
C9_ThreeJobOrder ==
    ThreeJobs =>
        /\ AllEnqueuedFirst => (TerminalBefore(2, 1) /\ TerminalBefore(1, 3))
        /\ FirstDequeuedEarly => (TerminalBefore(1, 2) /\ TerminalBefore(2, 3))

\* All three were enqueued before the first dequeue and all three are terminal.
C9_Witness ==
    /\ ThreeJobs
    /\ AllEnqueuedFirst
    /\ \A j \in 1..3 : Happened("term", j)

\* Where the wait of priority job p ends in the history: its inference start,
\* else its terminal write, else not yet.
WaitEnd(p) ==
    IF Happened("infer", p) THEN Pos("infer", p)
    ELSE IF Happened("term", p) THEN Pos("term", p)
    ELSE Len(events) + 1

\* The normal jobs of p's queue that executed inference while p waited: started
\* before the wait ended and not terminal when p was enqueued.
RanAhead(p) ==
    {n \in Submitted :
        /\ jobs[n].service = jobs[p].service /\ ~jobs[n].priority
        /\ Happened("infer", n) /\ Pos("infer", n) < WaitEnd(p)
        /\ ~Happened("term", n) \/ Pos("term", n) > Pos("enq", p)}

PriorityJobs == {p \in Submitted : jobs[p].priority}

\* A worker awaiting the running inference of a normal job stays as it is.
NotInterrupted ==
    [][\A q \in Services, i \in 1..MaxWorkers :
          (/\ i \in TaskIds(q)
           /\ Task(q, i).pc = "executor"
           /\ ~jobs[Task(q, i).job].priority
           /\ executor[Task(q, i).job].st = "running")
          => (/\ worker_tasks'[q][i] = Task(q, i)
              /\ executor'[Task(q, i).job].st # "none")]_vars

\* C10 as stated: for any worker count, at most one normal job of the queue
\* executes inference between the enqueue of a priority job and its start, and
\* a running normal job is never interrupted.
C10_OneJobAhead ==
    /\ [](\A p \in PriorityJobs : Cardinality(RanAhead(p)) <= 1)
    /\ NotInterrupted

\* C10 for one worker: with W = 1, at most one normal job of the queue executes
\* inference between the enqueue of a priority job and the end of its wait, and
\* a running normal job is never interrupted.
C10_OneJobAheadOneWorker ==
    /\ [](\A p \in PriorityJobs :
            max_workers[jobs[p].service] = 1 => Cardinality(RanAhead(p)) <= 1)
    /\ NotInterrupted

\* With one worker, a priority job has started inference after the normal job
\* that was in flight when it was enqueued, ahead of a normal job that waited.
C10_Witness ==
    \E p \in PriorityJobs, n \in JobIds :
        /\ max_workers[jobs[p].service] = 1
        /\ Happened("infer", p)
        /\ RanAhead(p) # {}
        /\ n < p /\ jobs[n].service = jobs[p].service /\ ~jobs[n].priority /\ InLane(n)

\* Worker i of q holds a job for which wait_for_gpu has just returned False.
TimedOut(q, i) ==
    /\ i \in TaskIds(q)
    /\ Task(q, i).pc = "except"
    /\ Task(q, i).err = TimeoutMsg

\* Worker i of q is in the finally block of a job it got no GPU for.
EndsWithoutGpu(q, i) ==
    /\ i \in TaskIds(q)
    /\ Task(q, i).pc = "finally"
    /\ ~Task(q, i).gpu_acquired

\* C11: when wait_for_gpu returns False the worker's job gets the error record
\* carrying the timeout text; the job was never processing, its inference
\* callable is never invoked, and the worker's finally block releases nothing.
C11_TimeoutMarksError ==
    /\ [](\A q \in Services, i \in 1..MaxWorkers :
            TimedOut(q, i) => /\ redis[Task(q, i).job].status = "pending"
                              /\ ~Task(q, i).gpu_acquired)
    /\ [](\A j \in JobIds : redis[j].error = TimeoutMsg => executor[j].st = "none")
    /\ [][\A q \in Services, i \in 1..MaxWorkers :
            /\ TimedOut(q, i) =>
                 \/ worker_tasks'[q][i] = Task(q, i)
                 \/ redis'[Task(q, i).job] = JobRecord("error", None, TimeoutMsg, 0)
            /\ EndsWithoutGpu(q, i) => current_users' = current_users]_vars

\* A worker ends a job that timed out while the GPU slot is held: the record
\* carries the timeout error and the worker is in its finally block.
C11_Witness ==
    \E q \in Services, i \in 1..MaxWorkers :
        /\ EndsWithoutGpu(q, i)
        /\ redis[Task(q, i).job] = JobRecord("error", None, TimeoutMsg, 0)
        /\ current_users # {}

\* The pcs inside _process_job after wait_for_gpu returned True.
AfterAdmission == {"set_processing", "executor", "except", "finally"}

\* C12: a worker that acquired the GPU for a job releases it before it leaves
\* _process_job, hence before its next dequeue, on every path: success,
\* inference exception, and failed store writes, the error write included.
C12_ReleaseOnEveryPath ==
    /\ [](\A q \in Services, i \in 1..MaxWorkers :
            (i \in TaskIds(q) /\ Task(q, i).gpu_acquired) => Task(q, i).pc \in AfterAdmission)
    /\ [][\A q \in Services, i \in 1..MaxWorkers :
            (/\ i \in TaskIds(q)
             /\ Task(q, i).gpu_acquired
             /\ Task(q, i).pc = "finally"
             /\ worker_tasks'[q][i] # Task(q, i))
            => UserId(q, GpuWorkerId(q, i - 1)) \notin current_users']_vars

\* The inference of a job raised, the error write failed too, and the worker
\* sits in the loop's sleep(5) with the GPU released.
C12_Witness ==
    \E q \in Services, i \in 1..MaxWorkers, j \in JobIds :
        /\ i \in TaskIds(q) /\ Task(q, i).pc = "backoff"
        /\ executor[j].st = "raised" /\ redis[j].status = "processing"
        /\ current_users = {}

\* Worker i of q handles a failure of its job: an inference exception, a GPU
\* timeout or an exception of set_job_status.
Failing(q, i) == i \in TaskIds(q) /\ Task(q, i).pc = "except"

\* Worker i of q has made a dequeue attempt and sleeps or holds a new job.
Attempted(q, i) == i \in TaskIds(q) /\ Task(q, i).pc \in {"idle", "acquire"}

\* C13: a per-job failure never ends a worker loop: no worker task is done
\* (nothing cancels here), and a worker handling an inference exception, a GPU
\* timeout or a store exception eventually makes another dequeue attempt.
C13_LoopSurvives ==
    /\ [](\A q \in Services, i \in 1..MaxWorkers :
            i \in TaskIds(q) => Task(q, i).pc # "done")
    /\ \A i \in 1..MaxWorkers : Failing(OcrService, i) ~> Attempted(OcrService, i)

\* After a job whose error write raised, the worker has left the sleep(5) of
\* the loop's exception handler and holds the next job.
C13_Witness ==
    \E i \in 1..MaxWorkers, j \in JobIds :
        /\ Attempted(OcrService, i) /\ Task(OcrService, i).job > j
        /\ executor[j].st = "raised" /\ redis[j].status = "processing"

\* Worker i of q is inside wait_for_gpu for its job.
InWaitForGpu(q, i) == i \in TaskIds(q) /\ Task(q, i).pc \in {"acquire", "sleep2"}

\* C14 as stated: the processing record is written before wait_for_gpu, so the
\* job of a worker that waits for the GPU shows processing.
C14_ProcessingBeforeAdmission ==
    \A q \in Services, i \in 1..MaxWorkers :
        Waiting(q, i) => redis[Task(q, i).job].status = "processing"

\* C14 as the code has it: the job of a worker inside wait_for_gpu shows
\* pending; processing, progress = 1 is written by a worker that holds the GPU
\* and is in the record when the inference callable starts.
C14_ProcessingAfterAdmission ==
    /\ [](\A q \in Services, i \in 1..MaxWorkers :
            InWaitForGpu(q, i) => redis[Task(q, i).job].status = "pending")
    /\ [][\A j \in JobIds :
            /\ (executor[j].st = "none" /\ executor'[j].st = "running")
                 => redis'[j] = JobRecord("processing", None, None, 1)
            /\ (redis[j].status = "pending" /\ redis'[j].status = "processing")
                 => \E q \in Services, i \in 1..MaxWorkers :
                        Holds(q, i, j) /\ Task(q, i).gpu_acquired]_vars

\* A worker sleeps in wait_for_gpu with its job pending while the job of the
\* worker that holds the GPU is processing.
C14_Witness ==
    \E q \in Services, i, k \in 1..MaxWorkers :
        /\ Waiting(q, i) /\ redis[Task(q, i).job].status = "pending"
        /\ k \in TaskIds(q) /\ Task(q, k).pc = "executor"
        /\ redis[Task(q, k).job].status = "processing"

\* stop_worker has returned for queue q and no worker was started since.
Stopped(q) == stops > 0 /\ lock[q] = "free" /\ worker_tasks[q] = <<>>

\* The jobs of queue q that a worker took from their lane.
Dequeued(q) == {j \in Submitted : jobs[j].service = q /\ ~InLane(j)}

\* C15: when stop_worker has ended the workers of a queue, every job a worker
\* had dequeued has a terminal record: shutdown leaves no dequeued job pending
\* or processing.
C15_StopLeavesNoJobOpen ==
    \A q \in Services : Stopped(q) => \A j \in Dequeued(q) : Terminal(j)

\* Worker i of q is handling a failed state-store write for the job it holds.
StoreFailed(q, i) == Task(q, i).pc = "except" /\ Task(q, i).err = StoreMsg

\* C16: a worker that was admitted to the GPU and meets a failed state-store
\* write for its job has invoked the inference callable for that job; a store
\* failure never skips the computation.
C16_StoreFaultKeepsInference ==
    \A q \in Services : \A i \in TaskIds(q) :
        StoreFailed(q, i) /\ Task(q, i).gpu_acquired =>
            executor[Task(q, i).job].st # "none"

\* ------------------------------------------------- the GPU manager by itself
\* The holder ids the queues call the manager with: ocr_queue passes no
\* worker_id, forms_queue passes its worker's.
HolderIds ==
    {UserId(q, GpuWorkerId(q, w)) : q \in Services, w \in 0..(MaxWorkers - 1)}

\* One call of acquire_gpu under user_id, log_gpu_memory reading mem.
AcquireCall(user_id, mem) ==
    /\ gpu_call' = [op |-> "acquire", user_id |-> user_id, mem |-> mem,
                    before |-> current_users,
                    ret |-> AcquireGranted(current_users, mem)]
    /\ current_users' = acquire_gpu(current_users, user_id, mem)
    /\ UNCHANGED <<config, gpu_wait, cleared, response, lanes, pool, redis, executor, jobs, running, events>>

\* One call of release_gpu under user_id; it returns None.
ReleaseCall(user_id) ==
    /\ gpu_call' = [op |-> "release", user_id |-> user_id, mem |-> NoCuda,
                    before |-> current_users, ret |-> FALSE]
    /\ current_users' = release_gpu(current_users, user_id)
    /\ UNCHANGED <<config, gpu_wait, cleared, response, lanes, pool, redis, executor, jobs, running, events>>

NextManager ==
    \/ \E user_id \in HolderIds, mem \in MemReadings : AcquireCall(user_id, mem)
    \/ \E user_id \in HolderIds : ReleaseCall(user_id)

\* A GPU manager of any capacity, with or without CUDA, called in any order.
InitManager ==
    Configured({Services}, {DefaultWorkers}, 1..MaxConcurrent, {TRUE}, FALSE, BOOLEAN,
               0, FALSE)

SpecManager == InitManager /\ [][NextManager]_vars

Acquired == gpu_call.op = "acquire"
Released == gpu_call.op = "release"

\* The holder set has room at the moment of the recorded call.
BelowCapacity == Cardinality(gpu_call.before) < max_concurrent

\* What the recorded acquire_gpu call did to the holder set, given its result.
AcquireEffect ==
    /\ gpu_call.ret => gpu_call.user_id \in current_users
    /\ ~gpu_call.ret => current_users = gpu_call.before

\* C17 as stated: acquire_gpu returns true exactly when the holders are fewer
\* than MAX_CONCURRENT and the measured allocated memory is strictly below the
\* threshold; the id is in the holder set on true, the set is unchanged on false.
C17_AcquireStrictlyBelowThreshold ==
    Acquired =>
        /\ gpu_call.ret <=>
             (BelowCapacity /\ (gpu_call.mem # NoCuda => gpu_call.mem < MemoryThreshold))
        /\ AcquireEffect

\* C17: acquire_gpu returns true exactly when the holders are fewer than
\* MAX_CONCURRENT and the measured allocated memory, when there is a
\* measurement, is not above the threshold (a reading equal to the threshold is
\* admitted); the id is in the holder set on true, the set is unchanged on false.
C17_AcquireNotAboveThreshold ==
    Acquired =>
        /\ gpu_call.ret <=>
             (BelowCapacity /\ (gpu_call.mem # NoCuda => gpu_call.mem <= MemoryThreshold))
        /\ AcquireEffect

\* An admitted call whose memory reading is exactly the threshold.
C17_Witness ==
    /\ Acquired /\ gpu_call.ret /\ gpu_call.mem = MemoryThreshold
    /\ gpu_call.user_id \in current_users

\* C18: when log_gpu_memory returns None, acquire_gpu succeeds exactly when
\* the holders are fewer than MAX_CONCURRENT.
C18_NoStatsOnlyCapacity ==
    Acquired /\ gpu_call.mem = NoCuda => (gpu_call.ret <=> BelowCapacity)

\* Without CUDA: a call admitted beside another holder, below capacity.
C18_Witness ==
    /\ ~cuda /\ Acquired /\ gpu_call.mem = NoCuda /\ gpu_call.ret
    /\ gpu_call.before # {} /\ BelowCapacity

\* A release of an id that is not a holder.
ReleasedAbsent == Released /\ gpu_call.user_id \notin gpu_call.before

\* C19: release_gpu removes exactly the given id when present and leaves the
\* other holders untouched; when the id is absent the set is unchanged; a
\* second release of the same id changes nothing more.
C19_ReleaseExactlyOne ==
    Released =>
        /\ gpu_call.user_id \notin current_users
        /\ \A u \in HolderIds \ {gpu_call.user_id} :
               u \in current_users <=> u \in gpu_call.before
        /\ ReleasedAbsent => current_users = gpu_call.before
        /\ release_gpu(current_users, gpu_call.user_id) = current_users

\* A release that removed its id and left another holder in the set.
C19_Witness ==
    /\ Released /\ gpu_call.user_id \in gpu_call.before
    /\ current_users # {} /\ current_users = gpu_call.before \ {gpu_call.user_id}

\* Worker i of q calls acquire_gpu under an id that is already a holder.
AcquiresHeldId(q, i) ==
    /\ InWaitForGpu(q, i)
    /\ UserId(q, GpuWorkerId(q, i - 1)) \in current_users

\* C20: an acquire_gpu call under a holder id that is already in the holder
\* set is rejected, whatever MAX_CONCURRENT is: the caller is not admitted and
\* the holder set is unchanged.
C20_HeldIdRejected ==
    [][\A q \in Services : \A i \in TaskIds(q) :
          AcquiresHeldId(q, i) /\ worker_tasks'[q][i] # worker_tasks[q][i] =>
              /\ ~worker_tasks'[q][i].gpu_acquired
              /\ current_users' = current_users]_vars

\* ------------------------------------------------ wait_for_gpu by itself
\* One round of the followed wait_for_gpu call w: the acquire_gpu attempt
\* reading mem, then the timeout test, then sleep(2).
WaitStep(w, mem, elapsed) ==
    LET out == wait_round(current_users, mem, elapsed) IN
    /\ gpu_call' = [op |-> "acquire", user_id |-> w.user_id, mem |-> mem,
                    before |-> current_users,
                    ret |-> AcquireGranted(current_users, mem)]
    /\ current_users' = acquire_gpu(current_users, w.user_id, mem)
    /\ gpu_wait' = [w EXCEPT !.attempts = @ + 1, !.ret = out,
                             !.slept = @ \/ out = "sleep"]
    /\ UNCHANGED <<config, cleared, response, lanes, pool, redis, executor, jobs, running, events>>

\* wait_for_gpu is called: start_time is taken and the loop's first round runs
\* without suspending.
WaitCall(user_id, timeout) ==
    \E mem \in MemReadings, elapsed \in MayElapse(timeout, FALSE) :
        WaitStep([NoWait EXCEPT !.user_id = user_id, !.timeout = timeout], mem, elapsed)

\* The followed call wakes from sleep(2) and runs its next round.
WaitRound ==
    /\ gpu_wait.ret = "sleep"
    /\ gpu_wait.attempts < MaxAttempts
    /\ \E mem \in MemReadings, elapsed \in MayElapse(gpu_wait.timeout, TRUE) :
        WaitStep(gpu_wait, mem, elapsed)

NextWait ==
    \/ NextManager
    \/ \E user_id \in HolderIds, timeout \in Timeouts : WaitCall(user_id, timeout)
    \/ WaitRound

\* The GPU manager with one wait_for_gpu call followed among other callers.
SpecWait == InitManager /\ [][NextWait]_vars

\* The step is a round of the followed wait: an acquire_gpu attempt of its own.
WaitAttempt ==
    /\ gpu_wait' # gpu_wait
    /\ gpu_call'.op = "acquire"
    /\ gpu_call'.user_id = gpu_wait'.user_id
    /\ gpu_call'.before = current_users

\* C21: wait_for_gpu returns true only straight after an attempt of its own
\* succeeded, with the holder in the holder set; it returns false only after
\* an attempt of its own failed and the timeout was exceeded (a positive
\* timeout only after sleeping), leaving the holder set as it was; and every
\* return follows at least one attempt, also with timeout 0.
C21_WaitReturns ==
    [][gpu_wait' # gpu_wait =>
         /\ WaitAttempt
         /\ gpu_wait'.attempts >= 1
         /\ gpu_wait'.ret = "true" =>
                gpu_call'.ret /\ gpu_wait'.user_id \in current_users'
         /\ gpu_wait'.ret # "true" =>
                ~gpu_call'.ret /\ current_users' = current_users
         /\ gpu_wait'.ret = "false" /\ gpu_wait'.timeout > 0 => gpu_wait'.slept]_vars

\* A call with timeout 0 that returned false after its one attempt.
C21_Witness ==
    gpu_wait.ret = "false" /\ gpu_wait.timeout = 0 /\ gpu_wait.attempts = 1

\* Worker i of q has an acquire pending or a lease outstanding.
UsesGpu(q, i) == InWaitForGpu(q, i) \/ Task(q, i).gpu_acquired

\* The holder id worker i of q gives the GPU manager.
HolderId(q, i) == UserId(q, GpuWorkerId(q, i - 1))

\* C22: no two workers that at the same time have an acquire pending or a
\* lease outstanding, in one pool or across both, use the same holder id.
C22_HolderIdsUnique ==
    \A q1 \in Services, q2 \in Services :
        \A i1 \in TaskIds(q1), i2 \in TaskIds(q2) :
            /\ <<q1, i1>> # <<q2, i2>>
            /\ UsesGpu(q1, i1) /\ UsesGpu(q2, i2)
            => HolderId(q1, i1) # HolderId(q2, i2)

\* Worker i of q was admitted for the job it holds.
Admitted(q, i) == i \in TaskIds(q) /\ Task(q, i).gpu_acquired

\* The OCR worker holding job j polls in wait_for_gpu, was admitted, or met
\* the timeout.
WaitedFor(j) ==
    \E i \in 1..MaxWorkers : Waiting(OcrService, i) /\ Holds(OcrService, i, j)
AdmittedFor(j) ==
    \E i \in 1..MaxWorkers : Admitted(OcrService, i) /\ Holds(OcrService, i, j)
TimedOutFor(j) ==
    \E i \in 1..MaxWorkers : TimedOut(OcrService, i) /\ Holds(OcrService, i, j)

\* C23 as stated: a worker polling in wait_for_gpu for its job eventually
\* acquires the GPU for that job (the holders release under the fair scheduling
\* of the workers and threads).
C23_WaiterAcquires ==
    \A j \in JobIds : WaitedFor(j) ~> AdmittedFor(j)

\* C23: a worker polling in wait_for_gpu for its job eventually leaves it,
\* admitted for that job or with the timeout error for it; admission itself is
\* not guaranteed.
C23_WaiterLeaves ==
    \A j \in JobIds : WaitedFor(j) ~> (AdmittedFor(j) \/ TimedOutFor(j))

\* A worker still polls for its job while another worker, which released the
\* GPU after the waiter's job was dequeued, holds it again for a later job.
C23_Witness ==
    \E i \in 1..MaxWorkers, k \in 1..MaxWorkers :
        /\ Waiting(OcrService, i)
        /\ Admitted(OcrService, k)
        /\ Task(OcrService, k).job > Task(OcrService, i).job

\* C24: the progress of every job's record is an integer in 0..100 and no
\* write to the record lowers it, from submission to the terminal record.
C24_ProgressMonotone ==
    [][\A j \in JobIds :
          /\ redis'[j].progress \in 0..100
          /\ redis'[j].progress >= redis[j].progress]_vars

\* The inference callable of job j is running on its executor thread.
CallableRuns(j) == executor[j].st = "running"

\* C25: while the inference callable of a job runs, the job's record is not
\* written and the queue lanes are not operated on by it: the record changes
\* only in steps of the submission handler or of the owning worker, which
\* writes before the callable starts or after it ended.
C25_CallableWritesNothing ==
    [][\A j \in JobIds : CallableRuns(j) => redis'[j] = redis[j]]_vars

\* The inference callable of job j raised and no worker holds the job any more.
FailedAndLeft(j) ==
    /\ executor[j].st = "raised"
    /\ \A q \in Services, i \in 1..MaxWorkers : ~Holds(q, i, j)

\* The worker i of q is admitted in this step.
AdmittedNow(q, i) ==
    /\ i \in TaskIds(q)
    /\ ~Task(q, i).gpu_acquired
    /\ worker_tasks'[q][i].gpu_acquired

\* The worker i of q leaves the finally block of a job it was admitted for.
ReleasesNow(q, i) ==
    /\ i \in TaskIds(q)
    /\ Task(q, i).gpu_acquired
    /\ Task(q, i).pc = "finally"
    /\ worker_tasks'[q][i] # Task(q, i)

\* C26: when the inference callable of a job raised, the record the worker
\* leaves is status error with the exception's text; and the holder set after
\* the worker's release is the one before its admission: admission adds the
\* worker's id to a set that lacked it, nothing changes the set while the
\* worker holds the GPU, and the release removes exactly that id.
C26_FailureRecordedAndReleased ==
    /\ [](\A j \in JobIds :
            FailedAndLeft(j) => redis[j] = JobRecord("error", None, InferenceMsg, 0))
    /\ [][\A q \in Services, i \in 1..MaxWorkers :
            /\ AdmittedNow(q, i) =>
                   /\ HolderId(q, i) \notin current_users
                   /\ current_users' = current_users \cup {HolderId(q, i)}
            /\ (i \in TaskIds(q) /\ Task(q, i).gpu_acquired /\ ~ReleasesNow(q, i)) =>
                   current_users' = current_users
            /\ ReleasesNow(q, i) =>
                   /\ HolderId(q, i) \in current_users
                   /\ current_users' = current_users \ {HolderId(q, i)}]_vars

\* A job whose inference raised has its error record, its worker went on, and
\* the holder set is empty as before the admission.
C26_Witness ==
    \E j \in JobIds :
        /\ FailedAndLeft(j)
        /\ redis[j].error = InferenceMsg
        /\ current_users = {}

\* C27: for a job whose inference failed (out of memory), in either queue, the
\* worker has invoked the GPU cleanup hook exactly once for that job when it
\* leaves the job, that is before its release_gpu completed.
C27_CleanupOnceOnFailure ==
    \A j \in JobIds : FailedAndLeft(j) => cleared[j] = 1

\* ------------------------------------------------------- the HTTP endpoints
\* Every variable but response.
served == <<config, lanes, pool, current_users, redis, executor, jobs, running, events,
            gpu_call, gpu_wait, cleared>>

\* str.lower() on the suffixes used here.
Lower(suffix) == CASE suffix = "PNG" -> "png" [] suffix = "GIF" -> "gif" [] OTHER -> suffix

\* validate_image_file: TRUE when it raises nothing.  The content type must
\* start with image/ and be allowed; the extension is the lower-cased last
\* dot-separated part of the filename, and is checked only when there is a
\* filename.
validate_image_file(file) ==
    /\ file.content_type # <<>> /\ file.content_type[1] = "image"
    /\ file.content_type \in AllowedMimeTypes
    /\ file.filename # <<>> =>
           Lower(file.filename[Len(file.filename)]) \in AllowedExtensions

\* The uploads a client sends.
Files ==
    [content_type : {<<"image", "png">>, <<"image", "gif">>, <<"text", "plain">>},
     filename : {<<"scan", "PNG">>, <<"scan", "gif">>},
     size : {MaxFileSize, MaxFileSize + 1}]

\* POST /ocr, /ocr/priority, /parse, /parse/priority: validate_image_file, the
\* pending write and submit_job inside one try; any exception is answered 400.
Upload(q, priority, file) ==
    /\ running = NoTask
    /\ q \in deployed
    /\ \E ok \in StoreOutcomes :
        IF validate_image_file(file) /\ ok
          THEN /\ Accept(q, priority, file)
               /\ response' = [NoResponse EXCEPT !.op = "submit", !.service = q,
                                  !.code = 200, !.job = NextJobId, !.file = file]
          ELSE /\ response' = [NoResponse EXCEPT !.op = "submit", !.service = q,
                                  !.code = 400, !.file = file]
               /\ UNCHANGED served

\* get_job_status answering a pending record for a key never set.
get_job_status_default(store, job_id) ==
    IF store[job_id] = Missing THEN JobRecord("pending", None, None, 0) ELSE store[job_id]

\* get_job_status: the stored record, None (Missing) for a key never set.
get_job_status(store, job_id) == store[job_id]

\* The body get_ocr_job_status_api / get_form_parse_job_status_api builds from
\* the record: the forms response has no progress, the OCR one no error text.
status_body(q, job) ==
    LET progress == IF q = OcrService THEN job.progress ELSE NoProgress IN
    IF job.status \in {"pending", "processing"}
      THEN [success |-> TRUE, status |-> job.status,
            message |-> "Job is still processing", result |-> None,
            progress |-> progress]
    ELSE IF job.status = "completed"
      THEN [success |-> TRUE, status |-> "completed",
            message |-> "Job completed successfully", result |-> job.result,
            progress |-> IF q = OcrService THEN 100 ELSE NoProgress]
    ELSE [success |-> FALSE, status |-> "error",
          message |-> IF q = OcrService THEN "Job failed" ELSE job.error,
          result |-> None, progress |-> progress]

\* GET /ocr/status/{job_id}, /parse/status/{job_id}.
StatusQuery(q, job_id) ==
    /\ running = NoTask
    /\ q \in deployed
    /\ LET job == get_job_status(redis, job_id) IN
        response' =
            IF job = Missing
              THEN [NoResponse EXCEPT !.op = "status", !.service = q, !.code = 404,
                       !.job = job_id,
                       !.body = [NoBody EXCEPT !.message = "Job ID not found"]]
              ELSE [NoResponse EXCEPT !.op = "status", !.service = q, !.code = 200,
                       !.job = job_id, !.seen = job, !.body = status_body(q, job)]
    /\ UNCHANGED served

NextApi ==
    \/ \E q \in Services, file \in Files : Upload(q, FALSE, file)
    \/ \E q \in Services, job_id \in JobIds : StatusQuery(q, job_id)
    \/ \E q \in Services : StartWorker(q)
    \/ \E q \in Services, i \in 1..MaxWorkers : WorkerStep(q, i)
    \/ \E j \in JobIds : ThreadEnd(j)

\* Either engine with its one worker behind its endpoints; store available,
\* normal submissions only.
InitApi ==
    Configured({{OcrService}, {FormsService}}, {DefaultWorkers}, {1}, {TRUE}, FALSE,
               {FALSE}, 0, FALSE)

SpecApi == InitApi /\ [][NextApi]_vars

\* An upload breaks a validation rule: its MIME type or its extension is not
\* allowed, or its payload is larger than MAX_FILE_SIZE.
Violates(file) ==
    \/ file.content_type \notin AllowedMimeTypes
    \/ file.filename # <<>> /\ Lower(file.filename[Len(file.filename)]) \notin AllowedExtensions
    \/ file.size > MaxFileSize

\* C28: a submission that breaks a validation rule is answered 400 and leaves
\* no trace: no record is written and no descriptor is enqueued.
C28_InvalidUploadLeavesNoTrace ==
    [][(response' # response /\ response'.op = "submit" /\ Violates(response'.file)) =>
          /\ response'.code = 400
          /\ redis' = redis
          /\ lanes' = lanes]_vars

\* The last response answers a status query.
Queried == response.op = "status"

\* The step sends the response of a status query.
QueryStep == response' # response /\ response'.op = "status"

\* The step queries again the job of the last status response, through the
\* same endpoint, and the job's record is the one that response was built from.
QueryRepeated ==
    /\ Queried /\ response'.op = "status"
    /\ response'.job = response.job /\ response'.service = response.service
    /\ get_job_status(redis, response.job) = response.seen

\* C29: a status query changes no job record, no lane and no holder set (it
\* changes nothing but the response sent); a query repeated while the job's
\* record is unchanged returns an equal response; a query for an id never
\* submitted answers 404 not found and leaves the id without a record.
C29_StatusReadOnly ==
    /\ [][QueryStep => UNCHANGED served]_vars
    /\ [][QueryRepeated => response' = response]_vars
    /\ [](Queried /\ response.job \notin Submitted =>
              /\ response.code = 404
              /\ response.body.message = "Job ID not found"
              /\ redis[response.job] = Missing)

\* With a job submitted, a query for another id was answered not found.
C29_Witness ==
    /\ Queried /\ response.code = 404
    /\ Submitted # {} /\ response.job \notin Submitted
    /\ redis[response.job] = Missing

\* C30: when a status query finds a record with status error and error text
\* r, the response has success = false, status = error, result = null and
\* message = r, through either engine's endpoint.
C30_ErrorReasonReported ==
    Queried /\ response.seen.status = "error" =>
        /\ ~response.body.success
        /\ response.body.status = "error"
        /\ response.body.result = None
        /\ response.body.message = response.seen.error

\* ------------------------------------------------ form-parse prompt field
\* POST /parse and POST /parse/priority with an llm_prompt field: validate the
\* upload, write the pending record, pick the prompt, submit_job.
FormUpload(priority, llm_prompt) ==
    /\ running = NoTask
    /\ FormsService \in deployed
    /\ \E ok \in StoreOutcomes :
        IF validate_image_file(GoodFile) /\ ok
          THEN /\ Enqueue(FormsService, priority, GoodFile,
                          prompt_for(priority, llm_prompt))
               /\ response' = [NoResponse EXCEPT !.op = "submit", !.service = FormsService,
                                  !.code = 200, !.job = NextJobId, !.file = GoodFile,
                                  !.llm_prompt = llm_prompt]
          ELSE /\ response' = [NoResponse EXCEPT !.op = "submit", !.service = FormsService,
                                  !.code = 400, !.file = GoodFile,
                                  !.llm_prompt = llm_prompt]
               /\ UNCHANGED served

NextPrompt ==
    \E priority \in BOOLEAN, llm_prompt \in Prompts : FormUpload(priority, llm_prompt)

\* The form-parse engine as shipped, its two submission endpoints called with
\* any prompt field.
InitPrompt ==
    Configured({{FormsService}}, {DefaultWorkers}, {1}, {TRUE}, FALSE, {FALSE}, 0, FALSE)

SpecPrompt == InitPrompt /\ [][NextPrompt]_vars

\* Empty, or made only of spaces and newlines.
Blank(llm_prompt) == \A k \in 1..Len(llm_prompt) : llm_prompt[k] \in Whitespace

\* C31: on both form-parse submission endpoints, whenever the llm_prompt field
\* is blank (empty or only spaces and newlines) the prompt placed in the
\* enqueued descriptor is the configured default prompt, never an empty string.
C31_BlankPromptGetsDefault ==
    [][(/\ response' # response
        /\ response'.op = "submit" /\ response'.code = 200
        /\ response'.service = FormsService
        /\ response'.llm_prompt # NoPrompt
        /\ Blank(response'.llm_prompt))
       => (/\ jobs'[response'.job].llm_prompt = DEFAULT_LLM_PROMPT
           /\ jobs'[response'.job].llm_prompt # <<>>)]_vars

\* ------------------------------------------------------ shutdown and restart
\* The OCR engine with its one worker and single-pass images, shut down and
\* restarted.
InitShut ==
    Configured({{OcrService}}, {DefaultWorkers}, {1}, {TRUE}, FALSE, {FALSE}, 0, FALSE)

NextShut ==
    \/ NextRun
    \/ NextStop

SpecShut == InitShut /\ [][NextShut]_vars

\* C32: once a job id has a record in the state store every later lookup finds
\* a record: no submission, worker, adapter or shutdown step deletes one.
C32_RecordsNeverDeleted ==
    [][\A j \in JobIds : redis[j] # Missing => redis'[j] # Missing]_vars

\* A record has been rewritten to its terminal state and a shutdown has run.
C32_Witness ==
    /\ stops > 0
    /\ \E j \in JobIds : Terminal(j)
    /\ \E j \in JobIds : redis[j].status = "processing"

\* ------------------------------------------------------------ exactly once
\* How often the event <<kind, j>> has been recorded.
Count(kind, j) == Cardinality({k \in 1..Len(events) : events[k] = <<kind, j>>})

\* The worker tasks that have job j as their job.
Handlers(j) ==
    {qi \in Services \X (1..MaxWorkers) : Holds(qi[1], qi[2], j)}

\* C33: each enqueued descriptor is dequeued exactly once and handled by one
\* worker: for any interleaving no job id is processed by two workers, at
\* once or one after the other, and the inference callable is invoked at most
\* once per job.
C33_ConsumedOnce ==
    \A j \in Submitted :
        /\ Count("enq", j) = 1
        /\ Count("deq", j) <= 1
        /\ Count("infer", j) <= 1
        /\ Cardinality(Handlers(j)) <= 1
        /\ (Count("deq", j) = 1) = ~InLane(j)

\* With two workers, two jobs have had their inference started, one of them is
\* finished and the other is in the hands of the second worker.
C33_Witness ==
    /\ max_workers[OcrService] = 2
    /\ \E a \in Submitted, b \in Submitted :
        /\ a # b
        /\ Holds(OcrService, 2, b)
        /\ Count("infer", a) = 1 /\ Count("infer", b) = 1
        /\ Terminal(a)

\* ----------------------------------------------------------- the worker pool
\* The OCR engine with any worker count over one GPU slot, shut down and
\* restarted, normal submissions only: one worker whose inference may raise, or
\* more workers whose inference returns.
InitCrew ==
    /\ Settings({{OcrService}}, WorkerCounts({OcrService}), {1}, {TRUE}, FALSE, BOOLEAN,
                {FALSE}, 0, FALSE)
    /\ inference_faults = (max_workers[OcrService] = 1)

NextCrew ==
    \/ NextGpu
    \/ NextStop

SpecCrew == InitCrew /\ [][NextCrew]_vars

\* The live worker tasks of q.
LiveCount(q) == Cardinality(Live(q))

\* A submit_job on q returns in this step: its start_worker ran at once, or it
\* had waited for the lock and has now run.
SubmitReturns(q) ==
    \/ start_waiters'[q] < start_waiters[q]
    \/ /\ Submitted' # Submitted
       /\ jobs'[NextJobId].service = q
       /\ start_waiters'[q] = start_waiters[q]

\* Task i of q is live now and is not after the step.
Ends(q, i) ==
    /\ i \in Live(q)
    /\ i \in TaskIds(q)' => Task(q, i)'.pc = "done"

\* C34: for any interleaving of submit_job, start_worker and stop_worker on one
\* queue the live worker tasks never exceed max_workers; after any submit_job
\* returns they are max_workers; a worker once started stays live until
\* stop_worker cancels it.
C34_PoolSize ==
    [][\A q \in Services :
          /\ LiveCount(q)' <= max_workers[q]
          /\ SubmitReturns(q) => LiveCount(q)' = max_workers[q]
          /\ \A i \in 1..MaxWorkers : Ends(q, i) => Task(q, i).must_cancel]_vars

\* With more than one worker: a shutdown has finished, a job waits in a lane and
\* the pool is full again.
C34_Witness ==
    /\ max_workers[OcrService] > 1
    /\ stops > 0 /\ lock[OcrService] = "free"
    /\ start_waiters[OcrService] = 0
    /\ LiveCount(OcrService) = max_workers[OcrService]
    /\ \E j \in Submitted : InLane(j)

\* ------------------------------------------------- lease during inference
\* C35: a GPU lease covers the whole inference call: whenever an inference
\* callable is executing on behalf of a worker, also in the executor thread
\* after stop_worker cancelled the worker task and after a later start_worker,
\* that worker's holder id is in the GPU holder set.
C35_LeaseCoversInference ==
    \A j \in JobIds :
        executor[j].st = "running" => executor[j].user_id \in current_users

\* ---------------------------------------------------- cache clearing hook
\* Worker i of q calls clear_gpu_memory() for its job in this step.
Clears(q, i) ==
    /\ i \in TaskIds(q)
    /\ Task(q, i).job # NoJob
    /\ cleared'[Task(q, i).job] > cleared[Task(q, i).job]

\* Worker i of q holds a GPU lease: it was admitted and its id is a holder.
HoldsLease(q, i) ==
    /\ Task(q, i).gpu_acquired
    /\ HolderId(q, i) \in current_users

\* C36: a form-parse worker invokes clear_gpu_memory only while it holds a GPU
\* lease; a worker whose wait_for_gpu timed out does not clear the GPU cache
\* while another holder may be running inference.
C36_ClearsOnlyUnderLease ==
    [][\A i \in 1..MaxWorkers :
          Clears(FormsService, i) => HoldsLease(FormsService, i)]_vars

\* ------------------------------------------------------------ no job lost
\* Job j is in the active_jobs set of its queue.
Active(j) == j \in active_jobs[jobs[j].service]

\* In how many of the three places job j is: a lane of its queue, the
\* active_jobs set, the terminal records.
Places(j) ==
    (IF InLane(j) THEN 1 ELSE 0) + (IF Active(j) THEN 1 ELSE 0)
        + (IF Terminal(j) THEN 1 ELSE 0)

\* C37: no job is lost: whenever the event loop is between tasks, each
\* submitted job id is in exactly one place: waiting in a lane of its queue, in
\* the queue's active_jobs set, or finished with a terminal record; and
\* active_jobs never holds more ids than there are live workers.
C37_NoJobLost ==
    /\ running = NoTask => \A j \in Submitted : Places(j) = 1
    /\ \A q \in Services : Cardinality(active_jobs[q]) <= LiveCount(q)

\* ------------------------------------------------------------- lease leaks
\* The OCR engine with its one worker under every disturbance: store writes
\* and inference that may fail, the CUDA memory gate that can refuse admission
\* until the timeout, shutdown and restart; normal submissions only.
InitLeak ==
    Settings({{OcrService}}, {DefaultWorkers}, {1}, {TRUE}, TRUE, {TRUE}, {TRUE}, 0, FALSE)

SpecLeak == InitLeak /\ [][NextCrew]_vars

\* No worker is between a successful acquire and its release.
NoLeaseOpen ==
    \A q \in Services : \A i \in TaskIds(q) : ~Task(q, i).gpu_acquired

\* C38: leases never leak: after any sequence of submissions, inference
\* successes and failures, GPU timeouts, store-write failures and stop_worker
\* cancellations, whenever no worker is between a successful acquire and its
\* release the GPU holder set is empty.
C38_NoLeaseLeak == NoLeaseOpen => current_users = {}

\* All workers are idle or stopped after a shutdown, with one job completed and
\* another given up at the GPU timeout.
C38_Witness ==
    /\ NoLeaseOpen
    /\ stops > 0
    /\ \E j \in Submitted : redis[j].status = "completed"
    /\ \E j \in Submitted : redis[j].error = TimeoutMsg

\* -------------------------------------------------- lanes across shutdown
\* A step of stop_worker on q, or of a worker task it has cancelled.
StopStep(q) ==
    \/ stops' # stops /\ lock'[q] # lock[q]
    \/ lock[q] = "stop_worker" /\ (lock'[q] # lock[q] \/ stop_at'[q] # stop_at[q])
    \/ \E i \in TaskIds(q) :
          /\ Task(q, i).must_cancel
          /\ i \in TaskIds(q)' => Task(q, i)' # Task(q, i)

\* The lane stays, grows at its tail, or loses its head.
PutOrGet(old, new) ==
    \/ new = old
    \/ Len(new) = Len(old) + 1 /\ SubSeq(new, 1, Len(old)) = old
    \/ old # <<>> /\ new = Tail(old)

\* C39: stop_worker leaves both lanes of the queue unchanged: descriptors
\* waiting in the normal or priority lane are neither removed nor reordered
\* by it, and at every dequeue, also after a later submit_job restarted the
\* workers, they leave priority lane first and in FIFO order.
C39_StopKeepsLanes ==
    [][\A q \in Services :
          /\ StopStep(q) => (queue'[q] = queue[q] /\ priority_queue'[q] = priority_queue[q])
          /\ PutOrGet(queue[q], queue'[q])
          /\ PutOrGet(priority_queue[q], priority_queue'[q])
          /\ Len(queue'[q]) < Len(queue[q]) => priority_queue[q] = <<>>]_vars

\* A shutdown has finished with descriptors waiting in both lanes, and a
\* submission has restarted the worker, which has not dequeued yet.
C39_Witness ==
    /\ stops > 0 /\ lock[OcrService] = "free"
    /\ LiveCount(OcrService) = max_workers[OcrService]
    /\ Len(queue[OcrService]) > 1
    /\ Len(priority_queue[OcrService]) > 0

====
